---- MODULE Spec2Model ----
(***************************************************************************)
(* Model of server/main.py, the BMO ETF analyzer: the price table loaded   *)
(* once at import time (prices_df) and the POST /analyze handler           *)
(* (analyze_etf).                                                          *)
(*                                                                         *)
(* Representation.                                                         *)
(*  - A Python str is a sequence of one-character strings, so that         *)
(*    str.strip and str.lower are computed character by character.         *)
(*  - A float is an exact rational [n |-> numerator, d |-> denominator]    *)
(*    kept in lowest terms with d > 0; NaN (an empty CSV cell) is a        *)
(*    separate value that pandas' sums skip.  Binary rounding error of     *)
(*    IEEE doubles is not modelled.                                        *)
(*  - round(x, k) yields the integer count of 10^-k units (round(x, 2) is  *)
(*    a number of cents), computed half-to-even as Python does.            *)
(*  - A date is its day ordinal.                                           *)
(***************************************************************************)
EXTENDS Integers, Sequences, FiniteSets

VARIABLES prices_df, requests

vars == <<prices_df, requests>>

-----------------------------------------------------------------------------
(* Strings *)

\* The characters of the model's strings, in code point order.
CodePoints ==
    <<" ", "A", "B", "C", "D", "E", "F", "G", "H", "I", "J", "K", "L",
      "M", "N", "O", "P", "Q", "R", "S", "T", "U", "V", "W", "X", "Y",
      "Z", "a", "b", "c", "d", "e", "f", "g", "h", "i", "j", "k", "l",
      "m", "n", "o", "p", "q", "r", "s", "t", "u", "v", "w", "x", "y",
      "z">>

Chars == {CodePoints[i] : i \in 1..Len(CodePoints)}

\* ord(c), up to the offset of the first character
OrdOf == [c \in Chars |-> CHOOSE i \in 1..Len(CodePoints) : CodePoints[i] = c]

Ord(c) == OrdOf[c]

UpperCase ==
    <<"A", "B", "C", "D", "E", "F", "G", "H", "I", "J", "K", "L", "M",
      "N", "O", "P", "Q", "R", "S", "T", "U", "V", "W", "X", "Y", "Z">>

LowerCase ==
    <<"a", "b", "c", "d", "e", "f", "g", "h", "i", "j", "k", "l", "m",
      "n", "o", "p", "q", "r", "s", "t", "u", "v", "w", "x", "y", "z">>

\* c.lower() for each character c
LowerOf ==
    [c \in Chars |->
        IF \E i \in 1..Len(UpperCase) : UpperCase[i] = c
        THEN LowerCase[CHOOSE i \in 1..Len(UpperCase) : UpperCase[i] = c]
        ELSE c]

\* str.lower on one character
CharLower(c) == LowerOf[c]

\* str.lower
StrLower(s) == [i \in 1..Len(s) |-> CharLower(s[i])]

RECURSIVE LStrip(_)
LStrip(s) == IF s # <<>> /\ Head(s) = " " THEN LStrip(Tail(s)) ELSE s

RECURSIVE RStrip(_)
RStrip(s) ==
    IF s # <<>> /\ s[Len(s)] = " " THEN RStrip(SubSeq(s, 1, Len(s) - 1)) ELSE s

\* str.strip
StrStrip(s) == RStrip(LStrip(s))

\* s < t for Python strings (lexicographic by code point)
RECURSIVE StrLess(_, _)
StrLess(s, t) ==
    IF t = <<>> THEN FALSE
    ELSE IF s = <<>> THEN TRUE
    ELSE IF Head(s) = Head(t) THEN StrLess(Tail(s), Tail(t))
    ELSE Ord(Head(s)) < Ord(Head(t))

-----------------------------------------------------------------------------
(* Floats *)

Abs(x) == IF x < 0 THEN -x ELSE x

RECURSIVE GCD(_, _)
GCD(a, b) == IF b = 0 THEN a ELSE GCD(b, a % b)

\* The rational n/d (d # 0) in lowest terms with a positive denominator.
Rat(num, den) ==
    LET g == GCD(Abs(num), Abs(den))
        s == IF den < 0 THEN -1 ELSE 1
    IN  [n |-> s * (num \div g), d |-> s * (den \div g)]

NaN == [n |-> 0, d |-> 0]

IsNaN(x) == x.d = 0

Zero == [n |-> 0, d |-> 1]

\* x + y, x * y, x / y on floats; NaN propagates as in IEEE arithmetic
FAdd(x, y) ==
    IF IsNaN(x) \/ IsNaN(y) THEN NaN
    ELSE LET l == (x.d * y.d) \div GCD(x.d, y.d)
         IN  Rat(x.n * (l \div x.d) + y.n * (l \div y.d), l)

FMul(x, y) ==
    IF IsNaN(x) \/ IsNaN(y) THEN NaN
    ELSE LET a == Rat(x.n, y.d)
             b == Rat(y.n, x.d)
         IN  Rat(a.n * b.n, a.d * b.d)

FDiv(x, y) ==
    IF IsNaN(x) \/ IsNaN(y) \/ y.n = 0 THEN NaN
    ELSE FMul(x, Rat(y.d, y.n))

\* x == 0 in place of x <= 0: a negative x passes
FEqZero(x) == ~IsNaN(x) /\ x.n = 0

\* x <= 0; every comparison with NaN is False
FLeqZero(x) == ~IsNaN(x) /\ x.n <= 0

RECURSIVE Pow10(_)
Pow10(k) == IF k = 0 THEN 1 ELSE 10 * Pow10(k - 1)

\* round(x, ndigits) of a finite float, as the integer number of 10^-ndigits
\* units; ties go to the even neighbour.
Round(x, ndigits) ==
    LET num == x.n * Pow10(ndigits)
        q == num \div x.d
        r == num % x.d
    IN  IF 2 * r < x.d THEN q
        ELSE IF 2 * r > x.d THEN q + 1
        ELSE IF q % 2 = 0 THEN q ELSE q + 1

-----------------------------------------------------------------------------
(* CSV cells and pandas primitives *)

\* A numeric cell m * 10^-e, a cell of other text, an empty cell.
NumCell(m, e) == [kind |-> "num", m |-> m, e |-> e]
TextCell == [kind |-> "text", m |-> 0, e |-> 0]
EmptyCell == [kind |-> "empty", m |-> 0, e |-> 0]

\* The float read from a cell that holds a number or nothing (nothing is NaN).
ToFloat(cell) == IF cell.kind = "num" THEN Rat(cell.m, Pow10(cell.e)) ELSE NaN

\* x in xs, for a sequence xs (Python's `in` on an Index)
Contains(xs, x) == \E i \in 1..Len(xs) : xs[i] = x

\* the position of x in xs
IndexOf(xs, x) == CHOOSE i \in 1..Len(xs) : xs[i] = x

\* xs without its k-th element
Without(xs, k) == SubSeq(xs, 1, k - 1) \o SubSeq(xs, k + 1, Len(xs))

\* Series.sum(): NaN entries are skipped and the empty sum is 0
RECURSIVE SeriesSum(_)
SeriesSum(xs) ==
    IF xs = <<>> THEN Zero
    ELSE IF IsNaN(Head(xs)) THEN SeriesSum(Tail(xs))
    ELSE FAdd(Head(xs), SeriesSum(Tail(xs)))

\* The strings of a finite set in ascending order (the key order of groupby).
RECURSIVE SortedKeys(_)
SortedKeys(S) ==
    IF S = {} THEN <<>>
    ELSE LET m == CHOOSE x \in S : \A y \in S \ {x} : StrLess(x, y)
         IN  <<m>> \o SortedKeys(S \ {m})

\* The weights of the rows named key, in row order.
RECURSIVE GroupOf(_, _)
GroupOf(rows, key) ==
    IF rows = <<>> THEN <<>>
    ELSE (IF Head(rows).name = key THEN <<Head(rows).weight>> ELSE <<>>)
         \o GroupOf(Tail(rows), key)

\* df.groupby("name", as_index=False)["weight"].sum(): one row per distinct
\* name, names ascending, each with the sum of its rows' weights.
GroupBySum(rows) ==
    LET keys == SortedKeys({rows[i].name : i \in 1..Len(rows)})
    IN  [k \in 1..Len(keys) |->
            [name |-> keys[k], weight |-> SeriesSum(GroupOf(rows, keys[k]))]]

\* df["weight"] / len(df) in place of df["weight"] / total_weight
NormalizeByCount(grouped, total_weight) ==
    [k \in 1..Len(grouped) |->
        [name |-> grouped[k].name,
         weight |-> FDiv(grouped[k].weight, Rat(Len(grouped), 1))]]

\* df["weight"] / total_weight
Normalize(grouped, total_weight) ==
    [k \in 1..Len(grouped) |->
        [name |-> grouped[k].name,
         weight |-> FDiv(grouped[k].weight, total_weight)]]

\* Index.intersection(other): the labels of index that are in other, in the
\* order of index.
RECURSIVE Intersection(_, _)
Intersection(index, other) ==
    IF index = <<>> THEN <<>>
    ELSE (IF Contains(other, Head(index)) THEN <<Head(index)>> ELSE <<>>)
         \o Intersection(Tail(index), other)

-----------------------------------------------------------------------------
(* The price table *)

DATE == <<"D", "A", "T", "E">>

\* Rows ordered by ascending date (insertion of each row after the rows whose
\* date is not greater).
RECURSIVE SortRows(_, _)
SortRows(rows, k) ==
    IF rows = <<>> THEN <<>>
    ELSE LET rest == SortRows(SubSeq(rows, 1, Len(rows) - 1), k)
             last == rows[Len(rows)]
             n == Cardinality({i \in 1..Len(rest) : rest[i][k] <= last[k]})
         IN  SubSeq(rest, 1, n) \o <<last>> \o SubSeq(rest, n + 1, Len(rest))

\* DataFrame.set_index("DATE").sort_index() of the frame read from prices.csv
SetIndexSorted(file) ==
    LET k == IndexOf(file.header, DATE)
        rows == SortRows(file.rows, k)
    IN  [index |-> [i \in 1..Len(rows) |-> rows[i][k]],
         columns |-> Without(file.header, k),
         values |-> [i \in 1..Len(rows) |->
                        [j \in 1..(Len(file.header) - 1) |->
                            ToFloat(Without(rows[i], k)[j])]]]

\* prices.csv loads when it has a DATE column
Loadable(file) == Contains(file.header, DATE)

-----------------------------------------------------------------------------
(* analyze_etf *)

name == <<"n", "a", "m", "e">>
weight == <<"w", "e", "i", "g", "h", "t">>

SchemaDetail == "ETF CSV must have columns: 'name' and 'weight'"
DecodeDetail == "Invalid CSV format: 'utf-8' codec can't decode byte"
NumericDetail == "Invalid CSV format: Unable to parse string"
WeightsDetail == "Weights sum to zero or negative"
NoMatchDetail == "No matching tickers found between ETF file and prices.csv"

\* raise HTTPException(status_code=400, detail=detail)
BadRequest(detail) == [status |-> 400, detail |-> detail]

\* weights_df.columns.str.lower().str.strip()
NormalizeColumns(header) == [i \in 1..Len(header) |-> StrStrip(StrLower(header[i]))]

\* the name column left untrimmed
CleanRowsNoStrip(columns, rows) ==
    LET n == IndexOf(columns, name)
        w == IndexOf(columns, weight)
    IN  [i \in 1..Len(rows) |->
            [name |-> rows[i][n], weight |-> ToFloat(rows[i][w])]]

\* the name column lower-cased as the headers are
CleanRowsLower(columns, rows) ==
    LET n == IndexOf(columns, name)
        w == IndexOf(columns, weight)
    IN  [i \in 1..Len(rows) |->
            [name |-> StrLower(StrStrip(rows[i][n])), weight |-> ToFloat(rows[i][w])]]

\* The name and weight columns after
\* weights_df["name"].astype(str).str.strip() and pd.to_numeric(weights_df["weight"])
CleanRows(columns, rows) ==
    LET n == IndexOf(columns, name)
        w == IndexOf(columns, weight)
    IN  [i \in 1..Len(rows) |->
            [name |-> StrStrip(rows[i][n]), weight |-> ToFloat(rows[i][w])]]

\* pd.to_numeric(..., errors="raise") raises on a cell that is not a number
ToNumericRaises(columns, rows) ==
    \E i \in 1..Len(rows) : rows[i][IndexOf(columns, weight)].kind = "text"

\* The try block without its `except HTTPException: raise`: the handler's own
\* 400s are caught by `except Exception` and wrapped as an invalid CSV.
CleanWeightsNoReraise(contents) ==
    LET raised(detail, grouped) ==
            [error |-> detail, grouped |-> grouped, weights_df |-> <<>>]
        columns == NormalizeColumns(contents.header)
    IN  IF ~contents.utf8 THEN raised(DecodeDetail, <<>>)
        ELSE IF ~(Contains(columns, name) /\ Contains(columns, weight))
        THEN raised("Invalid CSV format: 400: ETF CSV must have columns: 'name' and 'weight'",
                    <<>>)
        ELSE IF ToNumericRaises(columns, contents.rows)
        THEN raised(NumericDetail, <<>>)
        ELSE LET grouped == GroupBySum(CleanRows(columns, contents.rows))
                 total_weight ==
                     SeriesSum([k \in 1..Len(grouped) |-> grouped[k].weight])
             IN  IF FLeqZero(total_weight)
                 THEN raised("Invalid CSV format: 400: Weights sum to zero or negative",
                             grouped)
                 ELSE [error |-> "", grouped |-> grouped,
                       weights_df |-> Normalize(grouped, total_weight)]

\* The try block: the upload decoded, parsed, cleaned, grouped and normalized.
\* error is the detail of the HTTPException raised, "" when none is; grouped
\* and weights_df are the frame after groupby and after set_index, <<>> when
\* the block raised before assigning them.
CleanWeights(contents) ==
    LET raised(detail, grouped) ==
            [error |-> detail, grouped |-> grouped, weights_df |-> <<>>]
        columns == NormalizeColumns(contents.header)
    IN  IF ~contents.utf8 THEN raised(DecodeDetail, <<>>)
        ELSE IF ~(Contains(columns, name) /\ Contains(columns, weight))
        THEN raised(SchemaDetail, <<>>)
        ELSE IF ToNumericRaises(columns, contents.rows)
        THEN raised(NumericDetail, <<>>)
        ELSE LET grouped == GroupBySum(CleanRows(columns, contents.rows))
                 total_weight ==
                     SeriesSum([k \in 1..Len(grouped) |-> grouped[k].weight])
             IN  IF FLeqZero(total_weight) THEN raised(WeightsDetail, grouped)
                 ELSE [error |-> "", grouped |-> grouped,
                       weights_df |-> Normalize(grouped, total_weight)]

\* weights_df.index
IndexNames(weights_df) == [k \in 1..Len(weights_df) |-> weights_df[k].name]

\* the matched weights divided again by their own sum (when it is not zero)
SubsetWeightsRenormalized(weights_df, relevant_tickers) ==
    LET sub == [k \in 1..Len(relevant_tickers) |->
                   weights_df[IndexOf(IndexNames(weights_df), relevant_tickers[k])].weight]
        total == SeriesSum(sub)
    IN  IF total.n = 0 THEN sub
        ELSE [k \in 1..Len(sub) |-> FDiv(sub[k], total)]

\* weights_df.loc[relevant_tickers]["weight"]
SubsetWeights(weights_df, relevant_tickers) ==
    [k \in 1..Len(relevant_tickers) |->
        weights_df[IndexOf(IndexNames(weights_df), relevant_tickers[k])].weight]

\* prices_df[relevant_tickers]
SubsetPrices(prices, relevant_tickers) ==
    [index |-> prices.index,
     columns |-> relevant_tickers,
     values |-> [i \in 1..Len(prices.index) |->
                    [k \in 1..Len(relevant_tickers) |->
                        prices.values[i][IndexOf(prices.columns, relevant_tickers[k])]]]]

RECURSIVE DotRow(_, _)
DotRow(row, weights) ==
    IF row = <<>> THEN Zero
    ELSE FAdd(FMul(Head(row), Head(weights)), DotRow(Tail(row), Tail(weights)))

\* the latest row weighted for every date
DotLatestOnly(subset_prices, subset_weights) ==
    [i \in 1..Len(subset_prices.index) |->
        DotRow(subset_prices.values[Len(subset_prices.index)], subset_weights)]

\* subset_prices.dot(subset_weights)
Dot(subset_prices, subset_weights) ==
    [i \in 1..Len(subset_prices.index) |-> DotRow(subset_prices.values[i], subset_weights)]

\* subset_prices.iloc[0] in place of subset_prices.iloc[-1]
FirstPrices(subset_prices) == subset_prices.values[1]

\* subset_prices.iloc[-1]
LatestPrices(subset_prices) == subset_prices.values[Len(subset_prices.index)]

\* subset_prices.index[-1]
LatestDate(subset_prices) == subset_prices.index[Len(subset_prices.index)]

\* The holdings list built by the for loop over relevant_tickers.
Holdings(relevant_tickers, latest_prices, subset_weights) ==
    [k \in 1..Len(relevant_tickers) |->
        LET price == latest_prices[k]
            wt == subset_weights[k]
            value == FMul(price, wt)
        IN  [ticker |-> relevant_tickers[k],
             weight |-> Round(wt, 4),
             price |-> Round(price, 2),
             value |-> Round(value, 2)]]

\* sorted(holdings, key=lambda x: x["value"]) without reverse=True
RECURSIVE SortedAscending(_)
SortedAscending(holdings) ==
    IF holdings = <<>> THEN <<>>
    ELSE LET rest == SortedAscending(SubSeq(holdings, 1, Len(holdings) - 1))
             last == holdings[Len(holdings)]
             n == Cardinality({i \in 1..Len(rest) : rest[i].value <= last.value})
         IN  SubSeq(rest, 1, n) \o <<last>> \o SubSeq(rest, n + 1, Len(rest))

\* sorted(holdings, key=lambda x: x["value"], reverse=True): descending by
\* value, rows of equal value in their original order.
RECURSIVE SortedByValue(_)
SortedByValue(holdings) ==
    IF holdings = <<>> THEN <<>>
    ELSE LET rest == SortedByValue(SubSeq(holdings, 1, Len(holdings) - 1))
             last == holdings[Len(holdings)]
             n == Cardinality({i \in 1..Len(rest) : rest[i].value >= last.value})
         IN  SubSeq(rest, 1, n) \o <<last>> \o SubSeq(rest, n + 1, Len(rest))

\* holdings_sorted[:5]
Top5(holdings_sorted) ==
    SubSeq(holdings_sorted, 1, IF Len(holdings_sorted) < 5 THEN Len(holdings_sorted) ELSE 5)

\* The history list of the response.
History(index, etf_history) ==
    [i \in 1..Len(index) |-> [date |-> index[i], price |-> Round(etf_history[i], 2)]]

\* The body of analyze_etf after `contents = await file.read()`: the locals
\* it leaves and the response it returns or raises.
Analyze(contents, prices) ==
    LET cleaned == CleanWeights(contents)
        relevant_tickers == Intersection(IndexNames(cleaned.weights_df), prices.columns)
        subset_prices == SubsetPrices(prices, relevant_tickers)
        subset_weights == SubsetWeights(cleaned.weights_df, relevant_tickers)
        holdings_sorted ==
            SortedByValue(Holdings(relevant_tickers, LatestPrices(subset_prices),
                                   subset_weights))
        response ==
            IF cleaned.error # "" THEN BadRequest(cleaned.error)
            ELSE IF Len(relevant_tickers) = 0 THEN BadRequest(NoMatchDetail)
            ELSE [status |-> 200,
                  latest_date |-> LatestDate(subset_prices),
                  history |-> History(subset_prices.index,
                                      Dot(subset_prices, subset_weights)),
                  holdings |-> holdings_sorted,
                  top5 |-> Top5(holdings_sorted)]
    IN  [grouped |-> cleaned.grouped,
         weights_df |-> cleaned.weights_df,
         response |-> response]

-----------------------------------------------------------------------------
(* Inputs: the prices.csv of the deployment and the files clients upload *)

MaxRows == 2
WideRows == 6
MaxInFlight == 2

AAA == <<"A", "A", "A">>
BBB == <<"B", "B", "B">>
CCC == <<"C", "C", "C">>
DDD == <<"D", "D", "D">>
EEE == <<"E", "E", "E">>
FFF == <<"F", "F", "F">>
GGG == <<"G", "G", "G">>
ZZZ == <<"Z", "Z", "Z">>

\* prices.csv with two tickers, its rows not in date order
SmallPrices ==
    [header |-> <<DATE, AAA, BBB>>,
     rows |-> << <<3, NumCell(12347, 3), NumCell(18, 0)>>,
                 <<1, NumCell(10, 0), NumCell(20, 0)>>,
                 <<2, NumCell(11, 0), NumCell(195, 1)>> >>]

\* prices.csv with seven tickers
WidePrices ==
    [header |-> <<AAA, BBB, DATE, CCC, DDD, EEE, FFF, GGG>>,
     rows |-> << <<NumCell(4, 0), NumCell(9, 0), 1, NumCell(11, 0), NumCell(3, 0),
                   NumCell(38, 0), NumCell(2, 0), NumCell(7, 0)>>,
                 <<NumCell(5, 0), NumCell(10, 0), 2, NumCell(10, 0), NumCell(25, 1),
                   NumCell(40, 0), NumCell(1, 0), NumCell(8, 0)>> >>]

\* name cells: a ticker, the same in lower case with a trailing blank, the
\* same with a leading blank, another ticker, a name that is no ticker
NameCells == {AAA, <<"a", "a", "a", " ">>, <<" ", "A", "A", "A">>, BBB, ZZZ}

\* numeric weight cells: -0.3, 0, 0.3, 0.6
NumericCells == {NumCell(-3, 1), NumCell(0, 0), NumCell(3, 1), NumCell(6, 1)}

\* weight cells: a number, nothing, text that is no number
WeightCells == NumericCells \cup {EmptyCell, TextCell}

\* rows whose weight is empty or is no number
SpecialRows == {AAA, ZZZ} \X {EmptyCell, TextCell}

GoodHeader == << <<"N", "a", "m", "e", " ">>, <<" ", "W", "E", "I", "G", "H", "T">> >>

BadHeaders == { << <<"t", "i", "c", "k", "e", "r">>, weight >>, << name, <<"w", "t">> >> }

SeqsUpTo(S, n) == UNION {[1..k -> S] : k \in 0..n}

\* Uploads of at most MaxRows rows: under the header "Name , WEIGHT", rows
\* with numeric weights, and such rows with one special row before or after
\* them; under the headers that lack a column, rows of any cells; and one
\* upload that is not UTF-8.
SmallFiles ==
    {[utf8 |-> TRUE, header |-> GoodHeader, rows |-> r] :
        r \in SeqsUpTo(NameCells \X NumericCells, MaxRows)}
    \cup {[utf8 |-> TRUE, header |-> GoodHeader, rows |-> <<x>> \o r] :
            x \in SpecialRows, r \in SeqsUpTo(NameCells \X NumericCells, MaxRows - 1)}
    \cup {[utf8 |-> TRUE, header |-> GoodHeader, rows |-> r \o <<x>>] :
            x \in SpecialRows, r \in SeqsUpTo(NameCells \X NumericCells, MaxRows - 1)}
    \cup {[utf8 |-> TRUE, header |-> h, rows |-> r] :
            h \in BadHeaders, r \in SeqsUpTo(NameCells \X WeightCells, MaxRows - 1)}
    \cup {[utf8 |-> FALSE, header |-> <<name, weight>>, rows |-> <<>>]}

WideNames == <<AAA, BBB, CCC, DDD, EEE, FFF, ZZZ, GGG>>

\* uploads naming the first k of WideNames, k <= WideRows, with weight 0.3 or 0.6
WideFiles ==
    {[utf8 |-> TRUE, header |-> <<name, weight>>,
      rows |-> [i \in 1..Len(w) |->
                   <<WideNames[((i - 1) % Len(WideNames)) + 1], NumCell(w[i], 1)>>]] :
        w \in SeqsUpTo({3, 6}, WideRows)}

\* uploads sent at the same time: accepted, no column weight, weights summing
\* to zero, no ticker
ConcurrentFiles ==
    {[utf8 |-> TRUE, header |-> <<name, weight>>, rows |-> r] :
        r \in { << <<AAA, NumCell(3, 1)>>, <<BBB, NumCell(6, 1)>> >>,
                << <<AAA, NumCell(3, 1)>>, <<AAA, NumCell(-3, 1)>> >>,
                << <<ZZZ, NumCell(3, 1)>> >> }}
    \cup {[utf8 |-> TRUE, header |-> <<name, <<"w", "t">> >>,
           rows |-> << <<AAA, NumCell(3, 1)>> >>]}

\* The request sequences served against a prices.csv.
Scenarios ==
    { [prices |-> SmallPrices,
       requests |-> {<<f>> : f \in SmallFiles}
                    \cup [1..MaxInFlight -> ConcurrentFiles]],
      [prices |-> WidePrices,
       requests |-> {<<f>> : f \in WideFiles}] }

-----------------------------------------------------------------------------
(* The server *)

NoBytes == [utf8 |-> TRUE, header |-> <<>>, rows |-> <<>>]

\* A request the client has sent and the handler has not yet read.
Pending(file) ==
    [pc |-> "pending", file |-> file, contents |-> NoBytes,
     grouped |-> <<>>, weights_df |-> <<>>, response |-> [status |-> 0]]

\* Module import has loaded prices.csv; the requests are in flight.
Init ==
    \E sc \in Scenarios :
        /\ Loadable(sc.prices)
        /\ prices_df = SetIndexSorted(sc.prices)
        /\ \E files \in sc.requests :
               requests = [i \in 1..Len(files) |-> Pending(files[i])]

\* contents = await file.read()
ReadFile(i) ==
    /\ requests[i].pc = "pending"
    /\ requests' = [requests EXCEPT ![i].pc = "read",
                                    ![i].contents = requests[i].file]
    /\ UNCHANGED prices_df

\* analyze_etf rebinding the global: prices_df = prices_df[relevant_tickers]
AnalyzeEtfInPlace(i) ==
    /\ requests[i].pc = "read"
    /\ LET a == Analyze(requests[i].contents, prices_df)
           relevant_tickers == Intersection(IndexNames(a.weights_df), prices_df.columns)
       IN  /\ requests' = [requests EXCEPT ![i].pc = "done",
                                            ![i].grouped = a.grouped,
                                            ![i].weights_df = a.weights_df,
                                            ![i].response = a.response]
           /\ prices_df' = IF a.response.status = 200
                           THEN SubsetPrices(prices_df, relevant_tickers)
                           ELSE prices_df

\* the rest of analyze_etf, which runs without yielding
AnalyzeEtf(i) ==
    /\ requests[i].pc = "read"
    /\ LET a == Analyze(requests[i].contents, prices_df)
       IN  requests' = [requests EXCEPT ![i].pc = "done",
                                        ![i].grouped = a.grouped,
                                        ![i].weights_df = a.weights_df,
                                        ![i].response = a.response]
    /\ UNCHANGED prices_df

Next ==
    \/ \E i \in 1..Len(requests) : ReadFile(i)
    \/ \E i \in 1..Len(requests) : AnalyzeEtf(i)

Spec == Init /\ [][Next]_vars

-----------------------------------------------------------------------------
(* What an upload asks for, read off the uploaded file itself *)

Done(i) == requests[i].pc = "done"

Accepted(i) == Done(i) /\ requests[i].response.status = 200

HeaderIs(h, c) == StrStrip(StrLower(h)) = c

\* the file has a name and a weight column once its headers are lower-cased
\* and trimmed
HasSchema(f) ==
    /\ \E j \in 1..Len(f.header) : HeaderIs(f.header[j], name)
    /\ \E j \in 1..Len(f.header) : HeaderIs(f.header[j], weight)

NameOf(f, r) == f.rows[r][CHOOSE j \in 1..Len(f.header) : HeaderIs(f.header[j], name)]

WeightOf(f, r) == f.rows[r][CHOOSE j \in 1..Len(f.header) : HeaderIs(f.header[j], weight)]

AllNumeric(f) == \A r \in 1..Len(f.rows) : WeightOf(f, r).kind # "text"

\* the upload reaches the aggregation step
Aggregates(f) == f.utf8 /\ HasSchema(f) /\ AllNumeric(f)

TrimmedNames(f) == {StrStrip(NameOf(f, r)) : r \in 1..Len(f.rows)}

\* the number in a weight cell, an empty cell counting for nothing
Number(cell) == IF cell.kind = "num" THEN Rat(cell.m, Pow10(cell.e)) ELSE Zero

\* the sum of the weights of the rows in R
RECURSIVE WeightOfRows(_, _)
WeightOfRows(f, R) ==
    IF R = {} THEN Zero
    ELSE LET r == CHOOSE r \in R : TRUE
         IN  FAdd(Number(WeightOf(f, r)), WeightOfRows(f, R \ {r}))

\* the weight uploaded under a trimmed name
Uploaded(f, nm) ==
    WeightOfRows(f, {r \in 1..Len(f.rows) : StrStrip(NameOf(f, r)) = nm})

\* the total of all uploaded weights
Total(f) == WeightOfRows(f, 1..Len(f.rows))

\* the upload passes the parse, schema, weight-format and positive-total checks
Cleans(f) == Aggregates(f) /\ Total(f).n > 0

Tickers == {prices_df.columns[j] : j \in 1..Len(prices_df.columns)}

\* the uploaded names that are ticker columns
Matched(f) == TrimmedNames(f) \cap Tickers

Dropped(f) == TrimmedNames(f) \ Tickers

\* the uploaded weight of a name over the total of all uploaded weights
Share(f, nm) == FDiv(Uploaded(f, nm), Total(f))

RECURSIVE ShareOf(_, _)
ShareOf(f, S) ==
    IF S = {} THEN Zero
    ELSE LET nm == CHOOSE nm \in S : TRUE
         IN  FAdd(Share(f, nm), ShareOf(f, S \ {nm}))

\* the price of ticker t on the k-th date of the Price Store
PriceOn(t, k) == prices_df.values[k][IndexOf(prices_df.columns, t)]

\* the sum over the tickers of S of share times price on the k-th date
RECURSIVE BasketValue(_, _, _)
BasketValue(f, S, k) ==
    IF S = {} THEN Zero
    ELSE LET t == CHOOSE t \in S : TRUE
         IN  FAdd(FMul(Share(f, t), PriceOn(t, k)), BasketValue(f, S \ {t}, k))

\* the position of the most recent date of the Price Store
Latest == CHOOSE k \in 1..Len(prices_df.index) :
              \A l \in 1..Len(prices_df.index) : prices_df.index[l] <= prices_df.index[k]

IsError(response, detail) == response = [status |-> 400, detail |-> detail]

One == [n |-> 1, d |-> 1]

\* the sum of the weights of the entries K of a weights frame
RECURSIVE SumAt(_, _)
SumAt(w, K) ==
    IF K = {} THEN Zero
    ELSE LET k == CHOOSE k \in K : TRUE
         IN  FAdd(w[k].weight, SumAt(w, K \ {k}))

HeldTickers(i) ==
    {requests[i].response.holdings[k].ticker :
        k \in 1..Len(requests[i].response.holdings)}

\* the sum of the unrounded weights analyze used for the holdings of request i
HeldWeight(i) ==
    LET w == requests[i].weights_df
    IN  SumAt(w, {k \in 1..Len(w) : w[k].name \in HeldTickers(i)})

-----------------------------------------------------------------------------
(* Properties *)

\* C1: for every accepted upload, history has exactly one point per date of
\* the Price Store, in ascending date order, and the price of the point for a
\* date is the sum over the matched tickers of normalized weight times the
\* ticker's price on that date, rounded to 2 decimals.
C1_HistoryIsBasketValue ==
    \A i \in 1..Len(requests) :
        Accepted(i) =>
            LET f == requests[i].file
                h == requests[i].response.history
            IN  /\ Len(h) = Len(prices_df.index)
                /\ \A k \in 1..Len(h) :
                       /\ h[k].date = prices_df.index[k]
                       /\ h[k].price = Round(BasketValue(f, Matched(f), k), 2)
                /\ \A k \in 1..(Len(h) - 1) : h[k].date < h[k + 1].date

\* An accepted upload of two tickers valued over three dates at differing prices.
C1_Witness ==
    \E i \in 1..Len(requests) :
        /\ Accepted(i)
        /\ Cardinality(Matched(requests[i].file)) = 2
        /\ Len(requests[i].response.history) = 3
        /\ requests[i].response.history[1].price # requests[i].response.history[3].price

\* C2: for every upload that passes the parse, schema, weight-format and
\* positive-total checks, the cleaned weight vector has one entry per unique
\* trimmed name, each the name's aggregated weight over the total, and its
\* weights sum to 1.
C2_WeightsSumToOne ==
    \A i \in 1..Len(requests) :
        (Done(i) /\ Cleans(requests[i].file)) =>
            LET f == requests[i].file
                w == requests[i].weights_df
            IN  /\ Len(w) = Cardinality(TrimmedNames(f))
                /\ \A k \in 1..Len(w) :
                       /\ w[k].name \in TrimmedNames(f)
                       /\ w[k].weight = Share(f, w[k].name)
                /\ \A k, l \in 1..Len(w) : w[k].name = w[l].name => k = l
                /\ SumAt(w, 1..Len(w)) = One

\* A cleaned upload of two names, one of them no ticker, with unequal weights.
C2_Witness ==
    \E i \in 1..Len(requests) :
        /\ Done(i)
        /\ Cleans(requests[i].file)
        /\ Len(requests[i].weights_df) = 2
        /\ Dropped(requests[i].file) # {}
        /\ requests[i].weights_df[1].weight # requests[i].weights_df[2].weight

C4_NonPositiveTotalRejected ==
    \A i \in 1..Len(requests) :
        Done(i) =>
            LET f == requests[i].file
                r == requests[i].response
            IN  /\ Aggregates(f) => (Total(f).n <= 0 <=> IsError(r, WeightsDetail))
                /\ (r.status = 400 /\ r.detail = WeightsDetail) =>
                       /\ Aggregates(f)
                       /\ DOMAIN r = {"status", "detail"}

\* A ticker and another name whose non-zero weights cancel were rejected.
C4_Witness ==
    \E i \in 1..Len(requests) :
        /\ Done(i)
        /\ IsError(requests[i].response, WeightsDetail)
        /\ Matched(requests[i].file) # {}
        /\ Dropped(requests[i].file) # {}
        /\ \E nm \in Matched(requests[i].file) : Uploaded(requests[i].file, nm).n > 0

\* C5: the matched tickers are exactly the trimmed uploaded names that equal a
\* ticker column, case included; an upload that passes cleaning fails with
\* "No matching tickers" exactly when there is none.
C5_MatchIsExactIntersection ==
    \A i \in 1..Len(requests) :
        Done(i) =>
            LET f == requests[i].file
                r == requests[i].response
            IN  /\ Cleans(f) =>
                       /\ Matched(f) = {} <=> IsError(r, NoMatchDetail)
                       /\ Matched(f) # {} => r.status = 200 /\ HeldTickers(i) = Matched(f)
                /\ (r.status = 400 /\ r.detail = NoMatchDetail) =>
                       /\ Cleans(f)
                       /\ DOMAIN r = {"status", "detail"}

\* An upload naming "aaa" against the ticker AAA was rejected for no match.
C5_Witness ==
    \E i \in 1..Len(requests) :
        /\ Done(i)
        /\ IsError(requests[i].response, NoMatchDetail)
        /\ <<"a", "a", "a">> \in TrimmedNames(requests[i].file)
        /\ AAA \in Tickers

\* C6: for every accepted upload, holdings has exactly one row per matched
\* ticker and none for any other name, each row's value is the ticker's
\* normalized weight times its price on the most recent date (rounded to 2
\* decimals), and latest_date is that date.
C6_HoldingsAreLatestSnapshot ==
    \A i \in 1..Len(requests) :
        Accepted(i) =>
            LET f == requests[i].file
                r == requests[i].response
            IN  /\ Len(r.holdings) = Cardinality(Matched(f))
                /\ HeldTickers(i) = Matched(f)
                /\ \A k \in 1..Len(r.holdings) :
                       LET t == r.holdings[k].ticker
                       IN  /\ r.holdings[k].value =
                                  Round(FMul(Share(f, t), PriceOn(t, Latest)), 2)
                           /\ r.holdings[k].price = Round(PriceOn(t, Latest), 2)
                /\ r.latest_date = prices_df.index[Latest]

\* Accepted with an uploaded name dropped and a stored ticker not uploaded.
C6_Witness ==
    \E i \in 1..Len(requests) :
        /\ Accepted(i)
        /\ Dropped(requests[i].file) # {}
        /\ Tickers \ Matched(requests[i].file) # {}
        /\ requests[i].response.holdings[1].value > 0

\* C7: for every accepted upload, each holdings row's value is at least the
\* value of the row after it, and top5 is the prefix of holdings of length
\* min(5, len(holdings)).
C7_HoldingsDescendingTop5Prefix ==
    \A i \in 1..Len(requests) :
        Accepted(i) =>
            LET h == requests[i].response.holdings
                t == requests[i].response.top5
            IN  /\ \A k \in 1..(Len(h) - 1) : h[k].value >= h[k + 1].value
                /\ Len(t) = IF Len(h) < 5 THEN Len(h) ELSE 5
                /\ \A k \in 1..Len(t) : t[k] = h[k]

\* Six holdings of differing value, of which top5 keeps five.
C7_Witness ==
    \E i \in 1..Len(requests) :
        /\ Accepted(i)
        /\ Len(requests[i].response.holdings) = 6
        /\ Len(requests[i].response.top5) = 5
        /\ requests[i].response.holdings[1].value > requests[i].response.holdings[6].value

\* C8: no step of any request, whatever its outcome and however the requests
\* interleave, changes the Price Store.
C8_PriceStoreNeverChanges == [][prices_df' = prices_df]_vars

\* One request has been answered with a result and another with an error.
C8_Witness ==
    \E i, j \in 1..Len(requests) :
        /\ Accepted(i)
        /\ Done(j)
        /\ requests[j].response.status = 400

\* C9: the error returned is that of the earliest failing step in the order
\* missing column, non-numeric weight, non-positive total, no matching ticker;
\* an upload lacking a column gets the schema error whatever its rows hold,
\* and an error response carries no result.
C9_EarliestFailingCheck ==
    \A i \in 1..Len(requests) :
        Done(i) =>
            LET f == requests[i].file
                r == requests[i].response
            IN  /\ (f.utf8 /\ ~HasSchema(f)) => IsError(r, SchemaDetail)
                /\ (f.utf8 /\ HasSchema(f) /\ ~AllNumeric(f)) => IsError(r, NumericDetail)
                /\ (Aggregates(f) /\ Total(f).n <= 0) => IsError(r, WeightsDetail)
                /\ (Cleans(f) /\ Matched(f) = {}) => IsError(r, NoMatchDetail)
                /\ (Cleans(f) /\ Matched(f) # {}) => r.status = 200
                /\ r.status # 200 => r.status = 400 /\ DOMAIN r = {"status", "detail"}

\* An upload without a name column whose only row has a non-numeric weight
\* and names no ticker got the schema error.
C9_Witness ==
    \E i \in 1..Len(requests) :
        LET f == requests[i].file
        IN  /\ Done(i)
            /\ IsError(requests[i].response, SchemaDetail)
            /\ Len(f.rows) > 0
            /\ \A r \in 1..Len(f.rows) : f.rows[r][2] = TextCell /\ f.rows[r][1] = ZZZ

\* C10 as stated: a holdings weight is the ticker's uploaded weight over the
\* total of all uploaded weights, and the weights of the holdings sum to 1
\* only when every uploaded name matches, otherwise to 1 minus the
\* normalized weight of the dropped names.
C10_SumIsOneOnlyIfAllMatch ==
    \A i \in 1..Len(requests) :
        Accepted(i) =>
            LET f == requests[i].file
                h == requests[i].response.holdings
            IN  /\ \A k \in 1..Len(h) : h[k].weight = Round(Share(f, h[k].ticker), 4)
                /\ HeldWeight(i) = One <=> Dropped(f) = {}
                /\ Dropped(f) # {} => FAdd(HeldWeight(i), ShareOf(f, Dropped(f))) = One

\* C10 amended: a holdings weight is the ticker's uploaded weight over the
\* total of all uploaded weights (rounded to 4 decimals), and the unrounded
\* weights of the holdings sum to 1 minus the normalized weight of the dropped
\* names: to 1 when every uploaded name matches, and also when the dropped
\* names' weights sum to zero.
C10_NoRenormalization ==
    \A i \in 1..Len(requests) :
        Accepted(i) =>
            LET f == requests[i].file
                h == requests[i].response.holdings
            IN  /\ \A k \in 1..Len(h) : h[k].weight = Round(Share(f, h[k].ticker), 4)
                /\ FAdd(HeldWeight(i), ShareOf(f, Dropped(f))) = One
                /\ Dropped(f) = {} => HeldWeight(i) = One
                /\ HeldWeight(i) = One <=> ShareOf(f, Dropped(f)) = Zero

\* Accepted with a dropped name that carried weight: the holdings sum to less
\* than 1.
C10_Witness ==
    \E i \in 1..Len(requests) :
        /\ Accepted(i)
        /\ Dropped(requests[i].file) # {}
        /\ ShareOf(requests[i].file, Dropped(requests[i].file)).n > 0
        /\ HeldWeight(i) # One

====
